---- MODULE Spec2Model ----
(***************************************************************************)
(* User-management endpoints of backend/app/api/users.py.                  *)
(*                                                                         *)
(* Every request is a coroutine: it is suspended at each `await` of a      *)
(* store call, so the model splits a handler at its awaits and lets the    *)
(* pieces of different requests interleave.  The store (app.crud), the     *)
(* authenticator (app.auth) and the notifier (app.utils) are collaborators *)
(* of the handlers.                                                        *)
(***************************************************************************)
EXTENDS Naturals, FiniteSets, TLC

\* ---------------------------------------------------------------- bounds
\* ids the store can hand out, and requests one behaviour serves
MaxId == 3
MaxRequests == 2

Ids == 1..MaxId
Slots == 1..MaxRequests

Emails == {"a@x", "b@x", "c@x"}
Names == {"n1"}
Passwords == {"p", "q"}
None == "None"

\* ----------------------------------------------------------------- store
\* store    : id -> stored User object (NoUser where there is none)
\* nextId   : the id the next created object gets (ids are never reused)
\* settings : app.config.settings
\* req      : the requests, each with its handler's local variables
\* commits  : number of writes the store has committed
VARIABLES store, nextId, settings, req, commits

vars == <<store, nextId, settings, req, commits>>

\* get_password_hash: the store keeps a hash, never the password itself
Hash(p) == <<"hash", p>>

NoHash == <<>>

\* a stored User object; id 0 stands for "no object" (Python None)
NoUser ==
  [id |-> 0, email |-> None, full_name |-> None, hashed_password |-> NoHash,
   is_active |-> FALSE, is_superuser |-> FALSE]

\* schemas.User: what crud returns and what auth resolves; no password
NoSchemaUser ==
  [id |-> 0, email |-> None, full_name |-> None,
   is_active |-> FALSE, is_superuser |-> FALSE]

ToSchema(u) ==
  [id |-> u.id, email |-> u.email, full_name |-> u.full_name,
   is_active |-> u.is_active, is_superuser |-> u.is_superuser]

Present(i) == store[i].id # 0

\* crud.user.get
crud_get(i) == IF i \in Ids /\ Present(i) THEN ToSchema(store[i]) ELSE NoSchemaUser

\* crud.user.get_by_email
crud_get_by_email(e) ==
  IF \E i \in Ids : Present(i) /\ store[i].email = e
  THEN ToSchema(store[CHOOSE i \in Ids : Present(i) /\ store[i].email = e])
  ELSE NoSchemaUser

\* schemas.UserUpdate: `set` is pydantic's __fields_set__; an unset field
\* holds its default
UserUpdateDefault ==
  [set |-> {}, email |-> None, full_name |-> None, password |-> None,
   is_active |-> TRUE, is_superuser |-> FALSE]

\* schemas.UserUpdate(**jsonable_encoder(current_user)): every field of the
\* snapshot is set, `id` is not a field of UserUpdate, password is unset
UserUpdateFrom(cu) ==
  [set |-> {"email", "full_name", "is_active", "is_superuser"},
   email |-> cu.email, full_name |-> cu.full_name, password |-> None,
   is_active |-> cu.is_active, is_superuser |-> cu.is_superuser]

\* user_in.<f> = v
SetField(ui, f, v) == [ui EXCEPT ![f] = v, !.set = @ \cup {f}]

\* crud.user.update on an existing object: the fields that are set are
\* written, a password is stored hashed
Updated(u, ui) ==
  [id |-> u.id,
   email |-> IF "email" \in ui.set THEN ui.email ELSE u.email,
   full_name |-> IF "full_name" \in ui.set THEN ui.full_name ELSE u.full_name,
   hashed_password |->
     IF "password" \in ui.set /\ ui.password # None
     THEN Hash(ui.password) ELSE u.hashed_password,
   is_active |-> IF "is_active" \in ui.set THEN ui.is_active ELSE u.is_active,
   is_superuser |->
     IF "is_superuser" \in ui.set THEN ui.is_superuser ELSE u.is_superuser]

\* ------------------------------------------------------------- requests
Idle ==
  [op |-> "idle", pc |-> "idle", current_user |-> NoSchemaUser, user_id |-> 0,
   user_in |-> UserUpdateDefault, status |-> 0, error |-> None,
   user |-> NoSchemaUser, ret |-> NoSchemaUser, wrote |-> FALSE, calls |-> 0,
   mail |-> None, supplied |-> {}, dup |-> FALSE, t_auth |-> 0, t_write |-> 0]

\* the lowest free slot takes the next request
Free(r) ==
  /\ req[r].op = "idle"
  /\ \A q \in Slots : q < r => req[q].op # "idle"

\* auth.get_current_active_user: the caller is a stored, active user
ActiveIds == {i \in Ids : Present(i) /\ store[i].is_active}

Init ==
  /\ store =
       [i \in Ids |->
          IF i = 1
          THEN [id |-> 1, email |-> "a@x", full_name |-> None,
                hashed_password |-> Hash("p"), is_active |-> TRUE,
                is_superuser |-> TRUE]
          ELSE IF i = 2
          THEN [id |-> 2, email |-> "b@x", full_name |-> None,
                hashed_password |-> Hash("p"), is_active |-> TRUE,
                is_superuser |-> FALSE]
          ELSE NoUser]
  /\ nextId = 3
  /\ settings \in [EMAILS_ENABLED : BOOLEAN, USERS_OPEN_REGISTRATION : BOOLEAN]
  /\ req = [r \in Slots |-> Idle]
  /\ commits = 0

\* a request enters its handler with its dependencies resolved
Enter(op, cu, id, ui, pc) ==
  [Idle EXCEPT !.op = op, !.pc = pc, !.current_user = cu, !.user_id = id,
               !.user_in = ui, !.t_auth = commits]

\* raise HTTPException(status_code=code)
Raise(q, code, err) == [q EXCEPT !.pc = "done", !.status = code, !.error = err]

\* return user
Return(q, code, u) == [q EXCEPT !.pc = "done", !.status = code, !.ret = u]

\* the request's store call committed a write
Wrote(q) == [q EXCEPT !.calls = @ + 1, !.wrote = TRUE, !.t_write = commits + 1]

\* the request bodies the model draws
CreateInputs ==
  {SetField(SetField(SetField(UserUpdateDefault, "email", e), "password", p),
            "full_name", n) :
     e \in Emails, p \in Passwords, n \in Names \cup {None}}

MeInputs ==
  [password : Passwords \cup {None}, full_name : Names \cup {None},
   email : Emails \cup {None}]

Patches ==
  {UserUpdateDefault}
    \cup {SetField(UserUpdateDefault, "email", e) : e \in Emails}
    \cup {SetField(UserUpdateDefault, "full_name", n) : n \in Names}
    \cup {SetField(UserUpdateDefault, "password", p) : p \in Passwords}
    \cup {SetField(UserUpdateDefault, "is_active", b) : b \in BOOLEAN}
    \cup {SetField(UserUpdateDefault, "is_superuser", b) : b \in BOOLEAN}

\* crud.user.create: a new object with a fresh id; the store refuses an
\* email that is already there
NewUser(ui) ==
  [id |-> nextId, email |-> ui.email, full_name |-> ui.full_name,
   hashed_password |-> Hash(ui.password), is_active |-> TRUE,
   is_superuser |-> FALSE]

EmailTaken(e) == \E i \in Ids : Present(i) /\ store[i].email = e

\* app.utils.send_new_account_email: the call returns whether or not the
\* message went out
send_new_account_email == {"sent", "failed"}

\* ---------------------------------------------------------- create_user
\* POST /users/ : Depends(auth.get_current_active_superuser)
BeginCreateUser(r) ==
  /\ Free(r)
  /\ \E c \in ActiveIds, ui \in CreateInputs :
       LET q == [Enter("create", ToSchema(store[c]), 0, ui, "get_by_email")
                   EXCEPT !.dup = EmailTaken(ui.email)]
       IN req' = [req EXCEPT ![r] =
                    IF store[c].is_superuser THEN q
                    ELSE Raise(q, 403, "Forbidden")]
  /\ UNCHANGED <<store, nextId, settings, commits>>

\* (a create_user that goes on to crud.user.create whatever the lookup finds)
CreateUserLookupNoCheck(r) ==
  /\ req[r].op = "create" /\ req[r].pc = "get_by_email"
  /\ req' = [req EXCEPT ![r] =
              [@ EXCEPT !.user = crud_get_by_email(req[r].user_in.email),
                        !.calls = @ + 1, !.pc = "create"]]
  /\ UNCHANGED <<store, nextId, settings, commits>>

\* user = await crud.user.get_by_email(...); if user: raise 400
CreateUserLookup(r) ==
  /\ req[r].op = "create" /\ req[r].pc = "get_by_email"
  /\ LET user == crud_get_by_email(req[r].user_in.email)
         q == [req[r] EXCEPT !.user = user, !.calls = @ + 1]
     IN req' = [req EXCEPT ![r] =
                  IF user.id # 0 THEN Raise(q, 400, "Conflict")
                  ELSE [q EXCEPT !.pc = "create"]]
  /\ UNCHANGED <<store, nextId, settings, commits>>

\* if settings.EMAILS_ENABLED and user_in.email: send_new_account_email(...)
Mail(r, outcome) ==
  IF settings.EMAILS_ENABLED /\ req[r].user_in.email # None THEN outcome ELSE None

\* (a create_user that undoes the creation and fails when the message does
\* not go out)
CreateUserCreateRollback(r) ==
  /\ req[r].op = "create" /\ req[r].pc = "create"
  /\ \E outcome \in send_new_account_email :
       IF EmailTaken(req[r].user_in.email) \/ Mail(r, outcome) = "failed"
       THEN /\ req' = [req EXCEPT ![r] =
                        Raise([@ EXCEPT !.calls = @ + 1,
                                        !.mail = IF EmailTaken(req[r].user_in.email)
                                                 THEN None ELSE "failed"],
                              500, "ServerError")]
            /\ UNCHANGED <<store, nextId, commits>>
       ELSE /\ nextId \in Ids
            /\ store' = [store EXCEPT ![nextId] = NewUser(req[r].user_in)]
            /\ nextId' = nextId + 1
            /\ commits' = commits + 1
            /\ req' = [req EXCEPT ![r] =
                        Return([Wrote(@) EXCEPT !.mail = Mail(r, outcome)],
                               201, ToSchema(NewUser(req[r].user_in)))]
  /\ UNCHANGED settings

\* user = await crud.user.create(...); send_new_account_email; return user
CreateUserCreate(r) ==
  /\ req[r].op = "create" /\ req[r].pc = "create"
  /\ IF EmailTaken(req[r].user_in.email)
     THEN /\ req' = [req EXCEPT ![r] =
                      Raise([@ EXCEPT !.calls = @ + 1], 500, "ServerError")]
          /\ UNCHANGED <<store, nextId, commits>>
     ELSE /\ nextId \in Ids
          /\ store' = [store EXCEPT ![nextId] = NewUser(req[r].user_in)]
          /\ nextId' = nextId + 1
          /\ commits' = commits + 1
          /\ \E outcome \in send_new_account_email :
               req' = [req EXCEPT ![r] =
                         Return([Wrote(@) EXCEPT !.mail = Mail(r, outcome)],
                                201, ToSchema(NewUser(req[r].user_in)))]
  /\ UNCHANGED settings

\* ----------------------------------------------------- create_user_open
\* (a create_user_open without the registration gate)
BeginCreateUserOpenNoGate(r) ==
  /\ Free(r)
  /\ \E ui \in CreateInputs :
       req' = [req EXCEPT ![r] =
                 [Enter("createOpen", NoSchemaUser, 0, ui, "get_by_email")
                    EXCEPT !.dup = EmailTaken(ui.email)]]
  /\ UNCHANGED <<store, nextId, settings, commits>>

\* POST /users/open : no caller; the registration gate comes first
BeginCreateUserOpen(r) ==
  /\ Free(r)
  /\ \E ui \in CreateInputs :
       LET q == [Enter("createOpen", NoSchemaUser, 0, ui, "get_by_email")
                   EXCEPT !.dup = EmailTaken(ui.email)]
       IN req' = [req EXCEPT ![r] =
                    IF ~settings.USERS_OPEN_REGISTRATION
                    THEN Raise(q, 403, "Forbidden")
                    ELSE q]
  /\ UNCHANGED <<store, nextId, settings, commits>>

CreateUserOpenLookup(r) ==
  /\ req[r].op = "createOpen" /\ req[r].pc = "get_by_email"
  /\ LET user == crud_get_by_email(req[r].user_in.email)
         q == [req[r] EXCEPT !.user = user, !.calls = @ + 1]
     IN req' = [req EXCEPT ![r] =
                  IF user.id # 0 THEN Raise(q, 400, "Conflict")
                  ELSE [q EXCEPT !.pc = "create"]]
  /\ UNCHANGED <<store, nextId, settings, commits>>

CreateUserOpenCreate(r) ==
  /\ req[r].op = "createOpen" /\ req[r].pc = "create"
  /\ IF EmailTaken(req[r].user_in.email)
     THEN /\ req' = [req EXCEPT ![r] =
                      Raise([@ EXCEPT !.calls = @ + 1], 500, "ServerError")]
          /\ UNCHANGED <<store, nextId, commits>>
     ELSE /\ nextId \in Ids
          /\ store' = [store EXCEPT ![nextId] = NewUser(req[r].user_in)]
          /\ nextId' = nextId + 1
          /\ commits' = commits + 1
          /\ req' = [req EXCEPT ![r] =
                      Return(Wrote(@),
                             201, ToSchema(NewUser(req[r].user_in)))]
  /\ UNCHANGED settings

\* -------------------------------------------------------- update_user_me
\* user_in = UserUpdate(**jsonable_encoder(current_user)), then the body's
\* password, full_name and email, each only when it is not None
MeMerge(cu, b) ==
  LET u0 == UserUpdateFrom(cu)
      u1 == IF b.password # None THEN SetField(u0, "password", b.password) ELSE u0
      u2 == IF b.full_name # None THEN SetField(u1, "full_name", b.full_name) ELSE u1
  IN IF b.email # None THEN SetField(u2, "email", b.email) ELSE u2

Supplied(b) == {f \in {"password", "full_name", "email"} : b[f] # None}

\* PUT /users/me : Depends(auth.get_current_active_user)
BeginUpdateUserMe(r) ==
  /\ Free(r)
  /\ \E c \in ActiveIds, b \in MeInputs :
       req' = [req EXCEPT ![r] =
                 [Enter("updateSelf", ToSchema(store[c]), c,
                        MeMerge(ToSchema(store[c]), b), "update")
                    EXCEPT !.supplied = Supplied(b)]]
  /\ UNCHANGED <<store, nextId, settings, commits>>

\* user = await crud.user.update(con, id=..., obj_in=user_in); return user
\* (an UPDATE whose filter matches no object writes nothing)
CrudUpdate(r) ==
  LET i == req[r].user_id IN
  IF Present(i)
  THEN /\ store' = [store EXCEPT ![i] = Updated(@, req[r].user_in)]
       /\ commits' = commits + 1
       /\ req' = [req EXCEPT ![r] =
                    Return(Wrote(@), 200,
                           ToSchema(Updated(store[i], req[r].user_in)))]
  ELSE /\ UNCHANGED <<store, commits>>
       /\ req' = [req EXCEPT ![r] =
                    Raise([@ EXCEPT !.calls = @ + 1], 500, "ServerError")]

UpdateUserMeUpdate(r) ==
  /\ req[r].op = "updateSelf" /\ req[r].pc = "update"
  /\ CrudUpdate(r)
  /\ UNCHANGED <<nextId, settings>>

\* ------------------------------------------------------------ read_user
\* GET /users/{user_id}
BeginReadUser(r) ==
  /\ Free(r)
  /\ \E c \in ActiveIds, i \in Ids :
       req' = [req EXCEPT ![r] =
                 Enter("get", ToSchema(store[c]), i, UserUpdateDefault, "get")]
  /\ UNCHANGED <<store, nextId, settings, commits>>

\* user == current_user compares the two pydantic objects field by field
ReadDecision(user, current_user) ==
  IF user.id = 0 THEN <<404, "NotFound">>
  ELSE IF user = current_user THEN <<200, None>>
  ELSE IF ~current_user.is_superuser THEN <<400, "Forbidden">>
  ELSE <<200, None>>

ReadUserGet(r) ==
  /\ req[r].op = "get" /\ req[r].pc = "get"
  /\ LET user == crud_get(req[r].user_id)
         q == [req[r] EXCEPT !.user = user, !.calls = @ + 1]
         d == ReadDecision(user, req[r].current_user)
     IN req' = [req EXCEPT ![r] =
                  IF d[1] = 200 THEN Return(q, 200, user)
                  ELSE Raise(q, d[1], d[2])]
  /\ UNCHANGED <<store, nextId, settings, commits>>

\* ---------------------------------------------------------- update_user
\* PUT /users/{user_id} : Depends(auth.get_current_active_user)
BeginUpdateUser(r) ==
  /\ Free(r)
  /\ \E c \in ActiveIds, i \in Ids, ui \in Patches :
       req' = [req EXCEPT ![r] =
                 Enter("update", ToSchema(store[c]), i, ui, "get")]
  /\ UNCHANGED <<store, nextId, settings, commits>>

\* user = await crud.user.get(...); if not user: raise 404
UpdateUserGet(r) ==
  /\ req[r].op = "update" /\ req[r].pc = "get"
  /\ LET user == crud_get(req[r].user_id)
         q == [req[r] EXCEPT !.user = user, !.calls = @ + 1]
     IN req' = [req EXCEPT ![r] =
                  IF user.id = 0 THEN Raise(q, 404, "NotFound")
                  ELSE [q EXCEPT !.pc = "update"]]
  /\ UNCHANGED <<store, nextId, settings, commits>>

UpdateUserUpdate(r) ==
  /\ req[r].op = "update" /\ req[r].pc = "update"
  /\ CrudUpdate(r)
  /\ UNCHANGED <<nextId, settings>>

\* ---------------------------------------------------------- delete_user
\* DELETE /users/{user_id} : Depends(auth.get_current_active_user)
BeginDeleteUser(r) ==
  /\ Free(r)
  /\ \E c \in ActiveIds, i \in Ids :
       req' = [req EXCEPT ![r] =
                 Enter("delete", ToSchema(store[c]), i, UserUpdateDefault, "get")]
  /\ UNCHANGED <<store, nextId, settings, commits>>

\* (a check that lets only superusers delete)
DeleteAllowedSuperuserOnly(user, current_user) == current_user.is_superuser

\* not (not current_user.is_superuser and user.id != current_user.id)
DeleteAllowed(user, current_user) ==
  ~(~current_user.is_superuser /\ user.id # current_user.id)

\* (a delete_user that removes the object before it checks the caller)
DeleteUserGetRemoveFirst(r) ==
  /\ req[r].op = "delete" /\ req[r].pc = "get"
  /\ LET user == crud_get(req[r].user_id)
         q == [req[r] EXCEPT !.user = user, !.calls = @ + 1]
     IN IF user.id = 0
        THEN /\ req' = [req EXCEPT ![r] = Raise(q, 404, "NotFound")]
             /\ UNCHANGED <<store, commits>>
        ELSE /\ store' = [store EXCEPT ![req[r].user_id] = NoUser]
             /\ commits' = commits + 1
             /\ req' = [req EXCEPT ![r] =
                          IF ~DeleteAllowed(user, req[r].current_user)
                          THEN Raise(Wrote(q), 400, "Forbidden")
                          ELSE Return(Wrote(q), 200, user)]
  /\ UNCHANGED <<nextId, settings>>

\* user = await crud.user.get(...); 404 if absent, 400 if not allowed
DeleteUserGet(r) ==
  /\ req[r].op = "delete" /\ req[r].pc = "get"
  /\ LET user == crud_get(req[r].user_id)
         q == [req[r] EXCEPT !.user = user, !.calls = @ + 1]
     IN req' = [req EXCEPT ![r] =
                  IF user.id = 0 THEN Raise(q, 404, "NotFound")
                  ELSE IF ~DeleteAllowed(user, req[r].current_user)
                  THEN Raise(q, 400, "Forbidden")
                  ELSE [q EXCEPT !.pc = "remove"]]
  /\ UNCHANGED <<store, nextId, settings, commits>>

\* user = await crud.user.remove(con, id=user_id); return user
DeleteUserRemove(r) ==
  /\ req[r].op = "delete" /\ req[r].pc = "remove"
  /\ LET i == req[r].user_id IN
     IF Present(i)
     THEN /\ store' = [store EXCEPT ![i] = NoUser]
          /\ commits' = commits + 1
          /\ req' = [req EXCEPT ![r] =
                       Return(Wrote(@), 200,
                              ToSchema(store[i]))]
     ELSE /\ UNCHANGED <<store, commits>>
          /\ req' = [req EXCEPT ![r] =
                       Raise([@ EXCEPT !.calls = @ + 1], 500, "ServerError")]
  /\ UNCHANGED <<nextId, settings>>

Next ==
  \E r \in Slots :
    \/ BeginCreateUser(r)
    \/ CreateUserLookup(r)
    \/ CreateUserCreate(r)
    \/ BeginCreateUserOpen(r)
    \/ CreateUserOpenLookup(r)
    \/ CreateUserOpenCreate(r)
    \/ BeginUpdateUserMe(r)
    \/ UpdateUserMeUpdate(r)
    \/ BeginReadUser(r)
    \/ ReadUserGet(r)
    \/ BeginUpdateUser(r)
    \/ UpdateUserGet(r)
    \/ UpdateUserUpdate(r)
    \/ BeginDeleteUser(r)
    \/ DeleteUserGet(r)
    \/ DeleteUserRemove(r)

Spec == Init /\ [][Next]_vars

\* ================================================================ claims
Done(r) == req[r].pc = "done"

\* some other request removed object i
RemovedByOther(r, i) ==
  \E q \in Slots \ {r} :
    req[q].op = "delete" /\ req[q].user_id = i /\ req[q].status = 200

\* the step completes request r
Completes(r) == req[r].pc # "done" /\ req'[r].pc = "done"

\* C1: a delete whose target the handler found removes the object and
\* returns it exactly when the caller is a superuser or the target is the
\* caller; otherwise it fails with 400 Forbidden without touching the object.
\* (When another request removed the target between this request's get and
\* its remove, there is nothing left to remove and the request fails.)
C1_DeleteIffSuperuserOrSelf ==
  \A r \in Slots :
    (req[r].op = "delete" /\ req[r].user.id # 0) =>
      IF req[r].current_user.is_superuser
           \/ req[r].user_id = req[r].current_user.id
      THEN Done(r) =>
             \/ /\ req[r].status = 200 /\ req[r].wrote
                /\ req[r].ret.id = req[r].user_id
                /\ ~Present(req[r].user_id)
             \/ /\ req[r].status = 500 /\ ~req[r].wrote
                /\ RemovedByOther(r, req[r].user_id)
      ELSE /\ Done(r) /\ req[r].status = 400 /\ req[r].error = "Forbidden"
           /\ ~req[r].wrote /\ req[r].calls = 1
           /\ Present(req[r].user_id) \/ RemovedByOther(r, req[r].user_id)

C1_Witness ==
  \E r, q \in Slots :
    /\ req[r].op = "delete" /\ Done(r) /\ req[r].status = 200
    /\ ~req[r].current_user.is_superuser
    /\ req[r].user_id = req[r].current_user.id
    /\ req[q].op = "delete" /\ Done(q) /\ req[q].status = 400
    /\ req[q].user.id # 0

\* C2 (as claimed): get of a stored user returns it when the caller is that
\* user or a superuser, fails with 400 Forbidden for another non-superuser,
\* and fails with 404 when there is no such user.
C2_GetSelfOrSuperuser ==
  \A r \in Slots :
    (req[r].op = "get" /\ Done(r)) =>
      IF req[r].user.id = 0 THEN req[r].status = 404
      ELSE IF req[r].user_id = req[r].current_user.id
                \/ req[r].current_user.is_superuser
      THEN req[r].status = 200 /\ req[r].ret = req[r].user
      ELSE req[r].status = 400 /\ req[r].error = "Forbidden"

\* C3 (as claimed): the fields of a stored user change only in a step of a
\* request of that user or of an update issued by a superuser.
C3_OnlySelfOrSuperuserChanges ==
  [][\A i \in Ids :
       (Present(i) /\ store'[i].id # 0 /\ store'[i] # store[i]) =>
         \E r \in Slots :
           /\ Completes(r)
           /\ \/ req[r].current_user.id = i
              \/ req[r].op = "update" /\ req[r].current_user.is_superuser]_vars

\* C4 (as claimed): create and createOpen called with an email a stored user
\* has fail with 400 Conflict and add nothing, whoever calls.
C4_DuplicateAlwaysConflict ==
  \A r \in Slots :
    (req[r].op \in {"create", "createOpen"} /\ req[r].dup /\ Done(r)) =>
      req[r].status = 400 /\ req[r].error = "Conflict" /\ ~req[r].wrote

\* C4 (amended): a create that passed the superuser dependency, or a
\* createOpen that passed the registration gate, fails with 400 Conflict and
\* adds nothing whenever its get_by_email lookup finds a user with the email;
\* it goes on to crud.create only when the lookup found none.
C4_DuplicateAtLookupConflict ==
  \A r \in Slots :
    req[r].op \in {"create", "createOpen"} =>
      /\ req[r].user.id # 0 =>
           /\ Done(r) /\ req[r].status = 400 /\ req[r].error = "Conflict"
           /\ ~req[r].wrote /\ req[r].calls = 1
           /\ req[r].user.email = req[r].user_in.email
      /\ (req[r].pc = "create" \/ req[r].wrote \/ req[r].status = 500) =>
           req[r].user.id = 0 /\ req[r].calls >= 1

C4_Witness ==
  \E r, q \in Slots :
    /\ req[r].op = "create" /\ req[r].status = 400 /\ req[r].error = "Conflict"
    /\ req[q].op = "createOpen" /\ req[q].status = 400
    /\ req[q].error = "Conflict"

C6_ClosedRegistrationForbidden ==
  \A r \in Slots :
    (req[r].op = "createOpen" /\ ~settings.USERS_OPEN_REGISTRATION) =>
      /\ Done(r) /\ req[r].status = 403 /\ req[r].error = "Forbidden"
      /\ req[r].calls = 0 /\ ~req[r].wrote /\ req[r].t_write = 0
      /\ req[r].user.id = 0 /\ req[r].ret.id = 0

C6_Witness ==
  \E r \in Slots :
    /\ req[r].op = "createOpen" /\ req[r].dup
    /\ req[r].status = 403 /\ ~settings.USERS_OPEN_REGISTRATION

\* C7 (as claimed): the store write of updateSelf leaves every field the
\* request did not supply as it was in the store, and changes no other
\* user's object.
C7_UpdateSelfFrame ==
  [][\A r \in Slots :
       (req[r].op = "updateSelf" /\ Completes(r)) =>
         LET i == req[r].user_id IN
         /\ \A j \in Ids \ {i} : store'[j] = store[j]
         /\ "email" \notin req[r].supplied => store'[i].email = store[i].email
         /\ "full_name" \notin req[r].supplied =>
              store'[i].full_name = store[i].full_name
         /\ "password" \notin req[r].supplied =>
              store'[i].hashed_password = store[i].hashed_password
         /\ store'[i].is_active = store[i].is_active
         /\ store'[i].is_superuser = store[i].is_superuser]_vars

\* C8: when the new-account message of a create fails, the request still
\* returns 201 with the created user, and the created user is in the store
\* (until a delete request removes it).
C8_MailFailureNotSurfaced ==
  \A r \in Slots :
    (req[r].op = "create" /\ req[r].mail = "failed") =>
      /\ settings.EMAILS_ENABLED
      /\ Done(r) /\ req[r].status = 201 /\ req[r].error = None
      /\ req[r].wrote
      /\ req[r].ret.id # 0 /\ req[r].ret.email = req[r].user_in.email
      /\ Present(req[r].ret.id) \/ RemovedByOther(r, req[r].ret.id)

C8_Witness ==
  \E r \in Slots :
    /\ req[r].op = "create" /\ req[r].mail = "failed" /\ Done(r)
    /\ Present(req[r].ret.id)

\* C9: the store changes only in the step that completes a request with
\* 200 or 201; a request that ends otherwise (404, 400, 403, or the failure
\* of a write whose target is gone) has changed nothing, an object appears
\* only through a create at a fresh id, and a removed id stays removed.
C9_AllOrNothing ==
  [][/\ store' # store =>
          \E r \in Slots :
            /\ Completes(r) /\ req'[r].status \in {200, 201}
            /\ req[r].op \in {"create", "createOpen", "updateSelf", "update",
                              "delete"}
     /\ \A r \in Slots :
          (Completes(r) /\ req'[r].status \notin {200, 201}) =>
            /\ store' = store
            /\ req'[r].error \in {"NotFound", "Conflict", "Forbidden",
                                  "ServerError"}
     /\ \A i \in Ids :
          (~Present(i) /\ store'[i].id # 0) =>
            /\ i = nextId /\ nextId' = i + 1
            /\ \E r \in Slots :
                 Completes(r) /\ req[r].op \in {"create", "createOpen"}]_vars

C9_Witness ==
  \E r, q \in Slots :
    /\ req[r].op \in {"update", "updateSelf"} /\ req[r].status = 500
    /\ req[q].op = "delete" /\ req[q].status = 200
    /\ req[q].user_id = req[r].user_id /\ ~Present(req[r].user_id)

\* field f of object u holds what patch ui writes into it
HoldsValueOf(u, ui, f) ==
  IF f = "password" THEN u.hashed_password = Hash(ui.password)
  ELSE u[f] = ui[f]

\* C10 (as claimed): when an update of the same user committed after
\* updateSelf resolved its caller, the values that update wrote into fields
\* updateSelf was not asked to change are still in the store after
\* updateSelf's write.
C10_NoLostUpdate ==
  [][\A r \in Slots :
       (req[r].op = "updateSelf" /\ Completes(r)) =>
         \A q \in Slots \ {r} :
           (/\ req[q].op = "update" /\ req[q].wrote
            /\ req[q].user_id = req[r].user_id
            /\ req[q].t_write > req[r].t_auth) =>
             \A f \in req[q].user_in.set \ req[r].supplied :
               HoldsValueOf(store[req[r].user_id], req[q].user_in, f) =>
                 HoldsValueOf(store'[req[r].user_id], req[q].user_in, f)]_vars

====
